---- MODULE Spec2Model ----
(***************************************************************************)
(* Zero-trust PMU pipeline: the signal simulator (dsp/signal_simulator.py), *)
(* the feature extractor (dsp/feature_extractor.py), the mitigation agent  *)
(* (agents/mitigation.py), the trust scorer (agents/trust_scorer.py) and   *)
(* the mock agents of main.py and evals/run_evals.py.                      *)
(*                                                                         *)
(* Fixed-point units.  Voltages are integers in centi-pu (100 = 1.0 pu),   *)
(* frequencies are integers in 1e-4 Hz (500000 = 50 Hz), feature values    *)
(* are integers in 1e-4 of their unit (the code rounds to 4 decimals),     *)
(* trust scores are integers in hundredths (30 = 0.30).                    *)
(***************************************************************************)
EXTENDS Integers, Sequences, FiniteSets, TLC

VARIABLES
    np_random,   \* state of numpy's global random generator
    np_seed,     \* the seed last given to np.random.seed, -1 if never seeded
    gen_out,     \* the last generator call: [fn, arg, ret]
    dsp_in,      \* the feature extractor call being made: [fn, ...arguments]
    dsp_out,     \* its outcome: [status, value]
    dsp_prev,    \* extract_features: the reading as it was before the call, and
                 \* the outcome of the call made before on the same reading
    m_pc,        \* position inside decide_mitigation
    m_trust,     \* its argument trust_result
    m_attempt,   \* the retry loop's variable attempt
    m_reply,     \* response.text of the call that succeeded
    m_slept,     \* seconds slept in the retry loop so far
    m_api,       \* how the last generate_content call ended: "ok", "429", "error"
    m_result,    \* what decide_mitigation returned or raised
    mock_in,     \* mock mode: the call being made, [fn, features, trust_result]
    main_out,    \* its outcome with main.py's mock functions
    evals_out,   \* its outcome with evals/run_evals.py's mock functions
    t_pc,        \* position inside score_trust
    t_attempt,   \* the retry loop's variable attempt
    t_reply,     \* response.text of the call that succeeded
    t_slept,     \* seconds slept in the retry loop so far
    t_api,       \* how the last generate_content call ended: "ok", "429", "error"
    t_result     \* what score_trust returned or raised

vars == <<np_random, np_seed, gen_out, dsp_in, dsp_out, dsp_prev,
          m_pc, m_trust, m_attempt, m_reply, m_slept, m_api, m_result,
          mock_in, main_out, evals_out,
          t_pc, t_attempt, t_reply, t_slept, t_api, t_result>>
gen_vars == <<np_random, np_seed, gen_out>>
dsp_vars == <<dsp_in, dsp_out, dsp_prev>>
mit_vars == <<m_pc, m_trust, m_attempt, m_reply, m_slept, m_api, m_result>>
mock_vars == <<mock_in, main_out, evals_out>>
trust_vars == <<t_pc, t_attempt, t_reply, t_slept, t_api, t_result>>

(***************************************************************************)
(* Bounds of the model.                                                    *)
(***************************************************************************)
\* number of states of the abstract random generator
RngMod == 210
\* largest batch size passed to generate_batch
MaxBatch == 10
\* longest voltage / frequency array, other than full readings, given to
\* the feature extractor
MaxLen == 3

(***************************************************************************)
(* Python helpers.                                                         *)
(***************************************************************************)
\* round(num / den) for den > 0 and num >= 0: round-half-to-even, as
\* Python's round() does.  Exact on the rational; the float products
\* 0.40 * n and 0.35 * n agree with it for every n < 90.
PyRound(num, den) ==
    LET q == num \div den
        r == num % den
    IN  IF 2 * r < den THEN q
        ELSE IF 2 * r > den THEN q + 1
        ELSE IF q % 2 = 0 THEN q ELSE q + 1

Abs(x) == IF x < 0 THEN -x ELSE x

(***************************************************************************)
(* dsp/signal_simulator.py                                                 *)
(***************************************************************************)
NOMINAL_VOLTAGE == 100
NOMINAL_FREQUENCY == 500000
SAMPLES_PER_READING == 50

\* numpy's global RandomState, abstracted to a generator with RngMod states:
\* every draw reads the state and advances it, and the value drawn is a
\* function of the state read.
RngAdvance(s) == (s + 1) % RngMod

\* the state after k draws
RngAfter(s, k) == (s + k) % RngMod

\* np.random.normal(0, 0.01): one sample, in 1e-4 Hz, on the grid -0.01, 0, 0.01 Hz
random_normal(s) == ((((s \div 4) + s) % 3) - 1) * 100

\* np.random.uniform(1.3, 1.5) in centi-pu: 130 .. 150
random_uniform(s) == 130 + (s % 21)

\* np.random.randint(0, high): 0 .. high - 1
random_randint(s, high) == (7 * s) % high

\* NOMINAL_VOLTAGE * sin(2 pi NOMINAL_FREQUENCY t + pi/4) at t = k / SAMPLING_RATE:
\* the sampling rate equals the nominal frequency, so every sample falls on
\* the same phase pi/4 and is sin(pi/4) = 0.7071 pu, 71 on the centi-pu grid.
BaseSine == [k \in 1..SAMPLES_PER_READING |-> PyRound(NOMINAL_VOLTAGE * 7071, 10000)]

\* frequency = NOMINAL_FREQUENCY + np.random.normal(0, 0.01, size=SAMPLES_PER_READING)
NoisyFrequency(s) ==
    [k \in 1..SAMPLES_PER_READING |-> NOMINAL_FREQUENCY + random_normal(RngAfter(s, k - 1))]

\* each generator returns [reading, rng]: the reading and the generator's new state
generate_normal_signal(s) ==
    [reading |-> [voltage |-> BaseSine,
                  frequency |-> NoisyFrequency(s),
                  anomaly_type |-> "none",
                  severity |-> "none"],
     rng |-> RngAfter(s, SAMPLES_PER_READING)]

\* voltage[spike_index] = spike_value (spike_index is 0-based in the code)
SpikedVoltageTwice(voltage, spike_index, spike_value) ==
    [voltage EXCEPT ![spike_index + 1] = spike_value,
                    ![((spike_index + 1) % SAMPLES_PER_READING) + 1] = spike_value]

SpikedVoltage(voltage, spike_index, spike_value) ==
    [voltage EXCEPT ![spike_index + 1] = spike_value]

\* severity = "high" if spike_value > 1.4 else "medium"
SpikeSeverityAtLeast(spike_value) ==
    IF spike_value >= 140 THEN "high" ELSE "medium"

SpikeSeverity(spike_value) ==
    IF spike_value > 140 THEN "high" ELSE "medium"

generate_point_anomaly(s) ==
    LET s1 == RngAfter(s, SAMPLES_PER_READING)
        spike_value == random_uniform(s1)
        s2 == RngAdvance(s1)
        spike_index == random_randint(s2, SAMPLES_PER_READING)
    IN  [reading |-> [voltage |-> SpikedVoltage(BaseSine, spike_index, spike_value),
                      frequency |-> NoisyFrequency(s),
                      anomaly_type |-> "point",
                      severity |-> SpikeSeverity(spike_value)],
         rng |-> RngAdvance(s2)]

\* envelope = np.linspace(NOMINAL_VOLTAGE, 1.2, SAMPLES_PER_READING): sample k
\* (0-based) is 1 + 0.2 k / 49; times sin(pi/4) = 0.7071, on the centi-pu grid
TrendVoltage ==
    [k \in 1..SAMPLES_PER_READING |->
        PyRound(7071 * (5 * (SAMPLES_PER_READING - 1) + (k - 1)),
                5 * (SAMPLES_PER_READING - 1) * 100)]

generate_trend_anomaly(s) ==
    [reading |-> [voltage |-> TrendVoltage,
                  frequency |-> NoisyFrequency(s),
                  anomaly_type |-> "trend",
                  severity |-> "medium"],
     rng |-> RngAfter(s, SAMPLES_PER_READING)]

\* n_normal = int(round(0.40 * n)); n_point = int(round(0.35 * n))
NNormal(n) == PyRound(40 * n, 100)
NPoint(n) == PyRound(35 * n, 100)

\* n_trend = n - n_normal - n_point
NTrendRounded(n) == PyRound(25 * n, 100)

NTrend(n) == n - NNormal(n) - NPoint(n)

\* for _ in range(count): readings.append(gen()); range of a negative count is empty
RECURSIVE AppendReadings(_, _, _)
AppendReadings(acc, count, kind) ==
    IF count <= 0 THEN acc
    ELSE LET g == CASE kind = "none" -> generate_normal_signal(acc.rng)
                    [] kind = "point" -> generate_point_anomaly(acc.rng)
                    [] OTHER -> generate_trend_anomaly(acc.rng)
             next == [readings |-> Append(acc.readings, g.reading), rng |-> g.rng]
         IN  IF next.rng >= 0 THEN AppendReadings(next, count - 1, kind) ELSE next

\* np.random.shuffle(readings): for i in reversed(range(1, n)):
\*     j = randint(0, i + 1); readings[i], readings[j] = readings[j], readings[i]
RECURSIVE Shuffle(_, _)
Shuffle(acc, i) ==
    IF i < 1 THEN acc
    ELSE LET j == random_randint(acc.rng, i + 1)
             x == acc.readings
             next == [readings |-> [x EXCEPT ![i + 1] = x[j + 1], ![j + 1] = x[i + 1]],
                      rng |-> RngAdvance(acc.rng)]
         IN  IF next.rng >= 0 THEN Shuffle(next, i - 1) ELSE next

generate_batch(s, n) ==
    LET a0 == [readings |-> <<>>, rng |-> s]
        a1 == AppendReadings(a0, NNormal(n), "none")
        a2 == AppendReadings(a1, NPoint(n), "point")
        a3 == AppendReadings(a2, NTrend(n), "trend")
    IN  Shuffle(a3, Len(a3.readings) - 1)

NoCall == [fn |-> "none", arg |-> 0, ret |-> <<>>]

\* the module never seeds the generator: numpy seeds it from the OS at import
Unseeded == -1

GenInit ==
    /\ np_random \in 0..(RngMod - 1)
    /\ np_seed = Unseeded
    /\ gen_out = NoCall

\* np.random.seed(k), the only way a caller can fix the randomness of the
\* generators: none of them takes a seed or a generator argument
Seeds == {0, 42}
SeedState(k) == k % RngMod

Seed ==
    \E k \in Seeds :
        /\ np_random' = SeedState(k)
        /\ np_seed' = k
        /\ UNCHANGED <<gen_out, dsp_vars, mit_vars, mock_vars, trust_vars>>

\* a test fixture: the generator is seeded before the first call
SeededInit ==
    /\ np_seed \in Seeds
    /\ np_random = SeedState(np_seed)
    /\ gen_out = NoCall

CallNormal ==
    LET g == generate_normal_signal(np_random)
    IN  /\ gen_out' = [fn |-> "generate_normal_signal", arg |-> 0, ret |-> g.reading]
        /\ np_random' = g.rng
        /\ UNCHANGED <<np_seed, dsp_vars, mit_vars, mock_vars, trust_vars>>

CallPoint ==
    LET g == generate_point_anomaly(np_random)
    IN  /\ gen_out' = [fn |-> "generate_point_anomaly", arg |-> 0, ret |-> g.reading]
        /\ np_random' = g.rng
        /\ UNCHANGED <<np_seed, dsp_vars, mit_vars, mock_vars, trust_vars>>

CallTrend ==
    LET g == generate_trend_anomaly(np_random)
    IN  /\ gen_out' = [fn |-> "generate_trend_anomaly", arg |-> 0, ret |-> g.reading]
        /\ np_random' = g.rng
        /\ UNCHANGED <<np_seed, dsp_vars, mit_vars, mock_vars, trust_vars>>

CallBatch ==
    \E n \in 0..MaxBatch :
        LET g == generate_batch(np_random, n)
        IN  /\ gen_out' = [fn |-> "generate_batch", arg |-> n, ret |-> g.readings]
            /\ np_random' = g.rng
            /\ UNCHANGED <<np_seed, dsp_vars, mit_vars, mock_vars, trust_vars>>

(***************************************************************************)
(* dsp/feature_extractor.py                                                *)
(***************************************************************************)
Return(v) == [status |-> "return", value |-> v]
Raise(e) == [status |-> "raise", value |-> e]

\* what scipy's butter and filtfilt do with a band inside (0, 1): filtfilt
\* raises ValueError when the signal is not longer than its pad length
\* 3 * max(len(a), len(b)) = 3 * (2 * order + 1); butter is handed a band with
\* low >= high, which scipy releases either reject with ValueError or accept
ScipyOutcomes(signal, lowcut, highcut, order) ==
    IF Len(signal) <= 3 * (2 * order + 1) THEN {"ValueError"}
    ELSE IF lowcut >= highcut THEN {"ValueError", "ok"}
    ELSE {"ok"}

\* bandpass_filter hands back either its input (tag "passthrough") or
\* scipy_signal.filtfilt(b, a, signal) (tag "filtered").  The filtered samples
\* are not computed: a filtered result names the signal and the band it was
\* filtered from.
Passthrough(signal) ==
    [status |-> "return", tag |-> "passthrough", value |-> signal, band |-> <<>>]

Filtered(signal, lowcut, highcut, fs, order) ==
    [status |-> "return", tag |-> "filtered", value |-> signal,
     band |-> <<lowcut, highcut, fs, order>>]

\* except (ValueError, np.linalg.LinAlgError)
BandpassCaughtLinAlgOnly(e) == e = "LinAlgError"

BandpassCaught(e) == e \in {"ValueError", "LinAlgError"}

\* nyq = 0.5 * fs; low = lowcut / nyq; high = highcut / nyq;
\* if low >= 1 or high >= 1 or low <= 0 or high <= 0: return signal
\* (compared without dividing: low >= 1 iff 2 * lowcut >= fs, for fs > 0, and
\* the other way round for fs < 0)
CutoffNotPositive(lowcut, highcut, fs) ==
    LET le0(c) == IF fs > 0 THEN c <= 0 ELSE c >= 0
    IN  le0(lowcut) \/ le0(highcut)

CutoffOutOfRange(lowcut, highcut, fs) ==
    LET ge1(c) == IF fs > 0 THEN 2 * c >= fs ELSE 2 * c <= fs
        le0(c) == IF fs > 0 THEN c <= 0 ELSE c >= 0
    IN  ge1(lowcut) \/ ge1(highcut) \/ le0(lowcut) \/ le0(highcut)

\* lib is what the scipy calls do when they are reached
bandpass_filter(signal, lowcut, highcut, fs, order, lib) ==
    IF fs = 0 THEN Raise("ZeroDivisionError")
    ELSE IF CutoffOutOfRange(lowcut, highcut, fs) THEN Passthrough(signal)
    ELSE IF lib = "ok" THEN Filtered(signal, lowcut, highcut, fs, order)
    ELSE IF BandpassCaught(lib) THEN Passthrough(signal)
    ELSE Raise(lib)

RECURSIVE SumSq(_)
SumSq(s) == IF s = <<>> THEN 0 ELSE Head(s) * Head(s) + SumSq(Tail(s))

RECURSIVE MaxAbs(_)
MaxAbs(s) ==
    IF s = <<>> THEN 0
    ELSE LET m == MaxAbs(Tail(s)) IN IF Abs(Head(s)) > m THEN Abs(Head(s)) ELSE m

\* (2r - 1)^2 * n <= 4 * 10^4 * sumsq, i.e. r - 1/2 <= 100 * sqrt(sumsq / n),
\* computed in two base-10^4 digits so that no product leaves 32 bits
RmsAtLeast(r, sumsq, n) ==
    LET a == (2 * r - 1) * (2 * r - 1)
        lo == (a % 10000) * n
        hi == (a \div 10000) * n + (lo \div 10000)
    IN  r = 0 \/ hi < 4 * sumsq \/ (hi = 4 * sumsq /\ lo % 10000 = 0)

RECURSIVE RmsSearch(_, _, _, _)
RmsSearch(lo, hi, sumsq, n) ==
    IF lo >= hi THEN lo
    ELSE LET mid == (lo + hi + 1) \div 2
         IN  IF RmsAtLeast(mid, sumsq, n) THEN RmsSearch(mid, hi, sumsq, n)
             ELSE RmsSearch(lo, mid - 1, sumsq, n)

\* round(float(np.sqrt(np.mean(signal ** 2))), 4), in 1e-4 pu: the nearest
\* integer to 100 * sqrt(sumsq / n)
RmsRounded(signal) ==
    RmsSearch(0, 100 * MaxAbs(signal), SumSq(signal), Len(signal))

compute_rms(signal) ==
    IF Len(signal) = 0 THEN Return(0)
    ELSE Return(RmsRounded(signal))

\* n_fft = max(n, 2 ** int(np.ceil(np.log2(n)))): the least power of two >= n
RECURSIVE Pow2AtLeast(_, _)
Pow2AtLeast(n, p) == IF p >= n THEN p ELSE Pow2AtLeast(n, 2 * p)

NFft(n) == Pow2AtLeast(n, 1)

\* the sum of signal[j] * w[j % period] over the 0-based sample positions j
RECURSIVE WeightedSum(_, _, _)
WeightedSum(signal, j, w) ==
    IF signal = <<>> THEN 0
    ELSE Head(signal) * w[(j % Len(w)) + 1] + WeightedSum(Tail(signal), j + 1, w)

\* np.abs(fft.fft(signal, n=n_fft))[k] squared, for the bins whose twiddle
\* factors are 1, -1, i, -i: the DC bin, the Nyquist bin n_fft / 2 and the
\* quarter bin n_fft / 4.  These are all the bins of an n_fft <= 4, and the
\* only ones compute_thd reads when fs is fundamental, 2 or 4 times it.
SpectrumSq(signal, n_fft, k) ==
    CASE k = 0 -> WeightedSum(signal, 0, <<1>>) * WeightedSum(signal, 0, <<1>>)
      [] k # 0 /\ 2 * k = n_fft ->
            WeightedSum(signal, 0, <<1, -1>>) * WeightedSum(signal, 0, <<1, -1>>)
      [] k # 0 /\ 4 * k = n_fft ->
            WeightedSum(signal, 0, <<1, 0, -1, 0>>) * WeightedSum(signal, 0, <<1, 0, -1, 0>>)
            + WeightedSum(signal, 0, <<0, 1, 0, -1>>) * WeightedSum(signal, 0, <<0, 1, 0, -1>>)

\* fund_bin = int(round(fundamental * n_fft / fs)); fund_bin = max(1, min(fund_bin, half))
Max2(a, b) == IF a > b THEN a ELSE b
Min2(a, b) == IF a < b THEN a ELSE b

FundBin(n_fft, fs, fundamental) ==
    Max2(1, Min2(PyRound(fundamental * n_fft, fs), n_fft \div 2))

\* for h in range(2, 6): bin_h = h * fund_bin; if bin_h <= half: += spectrum[bin_h] ** 2
RECURSIVE HarmonicAmpsSq(_, _, _, _)
HarmonicAmpsSq(signal, n_fft, fund_bin, h) ==
    IF h >= 6 THEN 0
    ELSE (IF h * fund_bin <= n_fft \div 2
          THEN SpectrumSq(signal, n_fft, h * fund_bin) ELSE 0)
         + HarmonicAmpsSq(signal, n_fft, fund_bin, h + 1)

\* A THD value is the pair it is the root of: [harm_sq, fund_sq] stands for
\* round(100 * sqrt(harm_sq / fund_sq), 4) percent.  0.0 is ThdZero, numpy's
\* nan (0 / 0) has fund_sq = 0 and harm_sq = 0, its inf has fund_sq = 0 only.
\* (In 1e-4 percent a non-zero ratio does not fit the integers of the model.)
ThdZero == [harm_sq |-> 0, fund_sq |-> 1]

\* round(float(100.0 * np.sqrt(harmonic_amps_sq) / fund_amp), 4)
ThdRatio(harm_sq, fund_sq) ==
    IF harm_sq = 0 /\ fund_sq > 0 THEN ThdZero
    ELSE [harm_sq |-> harm_sq, fund_sq |-> fund_sq]

\* fund_amp = spectrum[fund_bin]; if fund_amp <= 0: return 0.0
ThdOfAmpsUnguarded(harm_sq, fund_sq) == ThdRatio(harm_sq, fund_sq)

ThdOfAmps(harm_sq, fund_sq) ==
    IF fund_sq <= 0 THEN ThdZero ELSE ThdRatio(harm_sq, fund_sq)

\* compute_thd without its "if n == 0: return 0.0"
compute_thd_unguarded(signal, fs, fundamental) ==
    LET n_fft == NFft(Len(signal))
        fund_bin == FundBin(n_fft, fs, fundamental)
    IN  IF fund_bin > n_fft \div 2 THEN Raise("IndexError")
        ELSE Return(ThdOfAmps(HarmonicAmpsSq(signal, n_fft, fund_bin, 2),
                              SpectrumSq(signal, n_fft, fund_bin)))

\* reading spectrum[fund_bin] past the end of the spectrum raises IndexError
compute_thd(signal, fs, fundamental) ==
    LET n == Len(signal)
        n_fft == NFft(n)
        half == n_fft \div 2
        fund_bin == FundBin(n_fft, fs, fundamental)
    IN  IF n = 0 THEN Return(ThdZero)
        ELSE IF fund_bin > half THEN Raise("IndexError")
        ELSE Return(ThdOfAmps(HarmonicAmpsSq(signal, n_fft, fund_bin, 2),
                              SpectrumSq(signal, n_fft, fund_bin)))

RECURSIVE SumAbsDev(_)
SumAbsDev(arr) ==
    IF arr = <<>> THEN 0
    ELSE Abs(Head(arr) - NOMINAL_FREQUENCY) + SumAbsDev(Tail(arr))

\* round(float(np.mean(np.abs(arr - 50.0))), 4) in 1e-4 Hz
compute_frequency_deviation(arr) ==
    IF Len(arr) = 0 THEN Return(0)
    ELSE Return(PyRound(SumAbsDev(arr), Len(arr)))

\* np.max(np.abs(filtered)), rounded to 4 decimals, in 1e-4 pu; np.max of an
\* empty array raises ValueError
PeakVoltage(filtered) ==
    IF Len(filtered) = 0 THEN Raise("ValueError")
    ELSE Return(100 * MaxAbs(filtered))

\* the reading dict after extract_features has run: the function assigns to
\* none of its keys and to none of its arrays
ReadingAfterExtractRectified(reading) ==
    [reading EXCEPT !.voltage = [k \in DOMAIN reading.voltage |-> Abs(reading.voltage[k])]]

ReadingAfterExtract(reading) == reading

\* the labels of the returned feature dict
PassThrough(reading) ==
    [anomaly_type |-> reading.anomaly_type, severity |-> reading.severity]

extract_features(reading, lib) ==
    LET voltage == reading.voltage
        filtered == bandpass_filter(voltage, 45, 55, 50, 3, lib)
        rms_voltage == compute_rms(voltage)
        thd_percent == compute_thd(voltage, 50, 50)
        frequency_deviation_hz == compute_frequency_deviation(reading.frequency)
        peak == IF filtered.status = "raise" THEN filtered
                ELSE IF filtered.tag = "passthrough" THEN PeakVoltage(filtered.value)
                ELSE Return(-1)   \* the peak of samples that are not computed
    IN  IF filtered.status = "raise" THEN filtered
        ELSE IF thd_percent.status = "raise" THEN thd_percent
        ELSE IF peak.status = "raise" THEN peak
        ELSE Return([rms_voltage |-> rms_voltage.value,
                     thd_percent |-> thd_percent.value,
                     frequency_deviation_hz |-> frequency_deviation_hz.value,
                     peak_voltage |-> peak.value,
                     anomaly_type |-> PassThrough(reading).anomaly_type,
                     severity |-> PassThrough(reading).severity])

(***************************************************************************)
(* The arguments the feature extractor is called with.                     *)
(***************************************************************************)
RECURSIVE SeqsOfLen(_, _)
SeqsOfLen(S, k) ==
    IF k = 0 THEN {<<>>}
    ELSE {Append(s, x) : s \in SeqsOfLen(S, k - 1), x \in S}

SeqsUpTo(S, k) == UNION {SeqsOfLen(S, j) : j \in 0..k}

ZeroVoltage == [k \in 1..SAMPLES_PER_READING |-> 0]
NominalFrequency == [k \in 1..SAMPLES_PER_READING |-> NOMINAL_FREQUENCY]

\* voltage arrays: every array of up to MaxLen samples, and full-length ones
Signals ==
    SeqsUpTo({-71, 0, 140}, MaxLen)
    \cup {ZeroVoltage, BaseSine, TrendVoltage,
          SpikedVoltage(BaseSine, 0, 150), SpikedVoltage(BaseSine, 7, 131)}

FreqArrays ==
    SeqsUpTo({NOMINAL_FREQUENCY, NOMINAL_FREQUENCY + 100}, MaxLen)
    \cup {NominalFrequency, NoisyFrequency(0)}

Labels ==
    {<<"none", "none">>, <<"point", "high">>}

Readings ==
    {[voltage |-> v, frequency |-> f, anomaly_type |-> l[1], severity |-> l[2]] :
        v \in Signals, f \in FreqArrays, l \in Labels}

\* the sampling rates compute_thd is called with (the pipeline passes 50)
ThdFs == {50, 100, 200}

\* <<lowcut, highcut, fs, order>> of a bandpass_filter call (the pipeline
\* passes 45, 55, 50, 3)
BandArgs ==
    {<<45, 55, 50, 3>>, <<45, 55, 200, 3>>, <<45, 55, 200, 1>>, <<0, 55, 200, 3>>,
     <<45, 100, 200, 3>>, <<55, 45, 200, 3>>, <<45, 55, 0, 3>>, <<45, 55, 100, 3>>,
     <<45, 55, -50, 3>>}

NoOutcome == [status |-> "none", value |-> 0]
NoPrev == [arg |-> [fn |-> "none"], out |-> NoOutcome]

\* every call of the feature extractor made on these arguments
DspCalls ==
    {[fn |-> "compute_rms", signal |-> s] : s \in Signals}
    \cup {[fn |-> "compute_thd", signal |-> s, fs |-> fs] : s \in Signals, fs \in ThdFs}
    \cup {[fn |-> "compute_frequency_deviation", signal |-> f] : f \in FreqArrays}
    \cup UNION {{[fn |-> "bandpass_filter", signal |-> s, band |-> b, lib |-> lib] :
                    lib \in ScipyOutcomes(s, b[1], b[2], b[4])} :
                s \in Signals, b \in BandArgs}
    \cup UNION {{[fn |-> "extract_features", reading |-> r, lib |-> lib] :
                    lib \in ScipyOutcomes(r.voltage, 45, 55, 3)} :
                r \in Readings}

DspIdle ==
    /\ dsp_in = [fn |-> "none"]
    /\ dsp_out = NoOutcome
    /\ dsp_prev = NoPrev

DspInit ==
    /\ dsp_in \in DspCalls
    /\ dsp_out = NoOutcome
    /\ dsp_prev = NoPrev

CallRms ==
    /\ dsp_in.fn = "compute_rms"
    /\ dsp_out.status = "none"
    /\ dsp_out' = compute_rms(dsp_in.signal)
    /\ UNCHANGED <<dsp_in, dsp_prev, gen_vars, mit_vars, mock_vars, trust_vars>>

CallThd ==
    /\ dsp_in.fn = "compute_thd"
    /\ dsp_out.status = "none"
    /\ dsp_out' = compute_thd(dsp_in.signal, dsp_in.fs, 50)
    /\ UNCHANGED <<dsp_in, dsp_prev, gen_vars, mit_vars, mock_vars, trust_vars>>

CallFreqDev ==
    /\ dsp_in.fn = "compute_frequency_deviation"
    /\ dsp_out.status = "none"
    /\ dsp_out' = compute_frequency_deviation(dsp_in.signal)
    /\ UNCHANGED <<dsp_in, dsp_prev, gen_vars, mit_vars, mock_vars, trust_vars>>

CallBandpass ==
    /\ dsp_in.fn = "bandpass_filter"
    /\ dsp_out.status = "none"
    /\ dsp_out' = bandpass_filter(dsp_in.signal, dsp_in.band[1], dsp_in.band[2],
                                  dsp_in.band[3], dsp_in.band[4], dsp_in.lib)
    /\ UNCHANGED <<dsp_in, dsp_prev, gen_vars, mit_vars, mock_vars, trust_vars>>

\* extract_features(reading), called once and then once more on the same
\* reading object: dsp_prev keeps the reading as it was before the call and
\* the outcome of the call before
CallExtract ==
    /\ dsp_in.fn = "extract_features"
    /\ dsp_prev.out.status = "none"
    /\ dsp_out' = extract_features(dsp_in.reading, dsp_in.lib)
    /\ dsp_in' = [dsp_in EXCEPT !.reading = ReadingAfterExtract(dsp_in.reading)]
    /\ dsp_prev' = [arg |-> dsp_in, out |-> dsp_out]
    /\ UNCHANGED <<gen_vars, mit_vars, mock_vars, trust_vars>>

DspNext ==
    \/ CallRms
    \/ CallThd
    \/ CallFreqDev
    \/ CallBandpass
    \/ CallExtract

GenNext ==
    \/ CallNormal
    \/ CallPoint
    \/ CallTrend
    \/ CallBatch

\* a caller that seeds numpy and calls the generators in any order
SeededNext ==
    \/ Seed
    \/ CallNormal
    \/ CallPoint
    \/ CallTrend
    \/ CallBatch

(***************************************************************************)
(* agents/mitigation.py                                                    *)
(***************************************************************************)
\* the retry loop with a fourth attempt
max_retries_four == 3 + 1

max_retries == 3

\* a Python str is the sequence of its characters
LowerCase ==
    <<"a", "b", "c", "d", "e", "f", "g", "h", "i", "j", "k", "l", "m",
      "n", "o", "p", "q", "r", "s", "t", "u", "v", "w", "x", "y", "z">>
UpperCase ==
    <<"A", "B", "C", "D", "E", "F", "G", "H", "I", "J", "K", "L", "M",
      "N", "O", "P", "Q", "R", "S", "T", "U", "V", "W", "X", "Y", "Z">>

\* str.upper()
UpperChar(c) ==
    IF \E i \in 1..Len(LowerCase) : LowerCase[i] = c
    THEN UpperCase[CHOOSE i \in 1..Len(LowerCase) : LowerCase[i] = c]
    ELSE c

StrUpper(s) == [i \in 1..Len(s) |-> UpperChar(s[i])]

\* str.strip()
IsSpace(c) == c \in {" ", "\n", "\t"}

RECURSIVE LStrip(_)
LStrip(s) == IF s # <<>> /\ IsSpace(Head(s)) THEN LStrip(Tail(s)) ELSE s

RECURSIVE RStrip(_)
RStrip(s) ==
    IF s # <<>> /\ IsSpace(s[Len(s)]) THEN RStrip(SubSeq(s, 1, Len(s) - 1)) ELSE s

StrStrip(s) == RStrip(LStrip(s))

ACCEPT == <<"A", "C", "C", "E", "P", "T">>
QUARANTINE == <<"Q", "U", "A", "R", "A", "N", "T", "I", "N", "E">>
REJECT == <<"R", "E", "J", "E", "C", "T">>

\* A reply text (response.text, stripped) is the sequence of its lines.  A
\* line is a code fence ("```" or "```json"), the one-line serialisation of a
\* JSON value, or prose.
FenceLine(lang) == [kind |-> "fence", lang |-> lang, json |-> [type |-> "none"]]
JsonLine(v) == [kind |-> "json", lang |-> "", json |-> v]
ProseLine == [kind |-> "prose", lang |-> "", json |-> [type |-> "none"]]

\* JSON values: an object with or without a "decision" member, whose value is
\* a string, a number or null; and values that are no object
JsonObject(decision) == [type |-> "object", decision |-> decision]
JStr(s) == [type |-> "string", chars |-> s]
JNum == [type |-> "number", chars |-> <<"1">>]
JNull == [type |-> "null", chars |-> <<"N", "o", "n", "e">>]
JMissing == [type |-> "missing", chars |-> <<>>]
JsonArray == [type |-> "array", decision |-> JMissing]

\* text.startswith("```") and lines[0].startswith("```")
StartsWithFence(lines) == lines # <<>> /\ lines[1].kind = "fence"

\* lines[-1].strip() == "```"
IsClosingFence(line) == line.kind = "fence" /\ line.lang = ""

\* if text.startswith("```"): drop the first line, and the last one if it is
\* a closing fence
StripFence(lines) ==
    IF StartsWithFence(lines)
    THEN LET rest == Tail(lines)
         IN  IF rest # <<>> /\ IsClosingFence(rest[Len(rest)])
             THEN SubSeq(rest, 1, Len(rest) - 1)
             ELSE rest
    ELSE lines

\* json.loads(text): the text must be exactly one JSON value
JsonLoads(lines) ==
    IF Len(lines) = 1 /\ lines[1].kind = "json"
    THEN Return(lines[1].json)
    ELSE Raise("JSONDecodeError")

\* str(data.get("decision", "QUARANTINE")).strip().upper()
DecisionOf(data) ==
    IF data.decision.type = "missing" THEN QUARANTINE
    ELSE StrUpper(StrStrip(data.decision.chars))

\* except (json.JSONDecodeError, ValueError, TypeError, AttributeError)
MitigationCaught(e) ==
    e \in {"JSONDecodeError", "ValueError", "TypeError", "AttributeError"}

ParseErrorResult ==
    Return([decision |-> QUARANTINE, explanation |-> "parse error",
            prompt_version |-> "mitigation_v1"])

\* trust_score = trust_result.get("trust_score", 0.0); trust_score < 0.30
\* (a str compared with a float raises TypeError)
TrustScore(trust_result) ==
    IF trust_result.kind = "missing" THEN 0 ELSE trust_result.trust_score

\* the safety net: if trust_score < 0.30: decision = "REJECT"
SafetyNet(trust_score) == trust_score < 30

\* lines 52-77: what decide_mitigation does with the reply of a call that
\* succeeded
ParseReply(trust_result, reply) ==
    LET loaded == JsonLoads(StripFence(reply))
        data == loaded.value
    IN  IF loaded.status = "raise" THEN ParseErrorResult
        ELSE IF data.type # "object" THEN ParseErrorResult    \* AttributeError
        ELSE IF trust_result.kind = "str" THEN ParseErrorResult   \* TypeError
        ELSE IF SafetyNet(TrustScore(trust_result))
        THEN Return([decision |-> REJECT,
                     explanation |-> "Forced REJECT: trust_score below 0.30 threshold.",
                     prompt_version |-> "mitigation_v1"])
        ELSE Return([decision |-> DecisionOf(data),
                     explanation |-> "from the reply",
                     prompt_version |-> "mitigation_v1"])

\* an exception leaving the retry loop meets the outer except clause
RaisedFromLoop(class) ==
    IF MitigationCaught(class) THEN ParseErrorResult ELSE Raise(class)

TrustResults ==
    {[kind |-> "float", trust_score |-> x] : x \in {0, 15, 29, 30, 45, 70, 95}}
    \cup {[kind |-> "missing", trust_score |-> 0], [kind |-> "str", trust_score |-> 0]}

Replies ==
    {<<JsonLine(JsonObject(JStr(d)))>> :
        d \in {ACCEPT, QUARANTINE, REJECT,
               <<" ", "a", "c", "c", "e", "p", "t", "\n">>,
               <<"A", "L", "L", "O", "W">>, <<>>}}
    \cup {<<JsonLine(JsonObject(JMissing))>>, <<JsonLine(JsonObject(JNull))>>,
          <<JsonLine(JsonObject(JNum))>>, <<JsonLine(JsonArray)>>,
          <<>>, <<ProseLine>>,
          <<FenceLine("json"), JsonLine(JsonObject(JStr(ACCEPT))), FenceLine("")>>,
          <<FenceLine(""), JsonLine(JsonObject(JStr(REJECT)))>>,
          <<FenceLine("json"), JsonLine(JsonObject(JStr(ACCEPT))), FenceLine(""), ProseLine>>}

\* the classes of the exceptions client.models.generate_content raises
ApiErrorClasses == {"APIError", "ValueError"}

MitIdle ==
    /\ m_pc = "idle" /\ m_trust = [kind |-> "none"] /\ m_attempt = 0 /\ m_reply = <<>>
    /\ m_slept = 0 /\ m_api = "none" /\ m_result = NoOutcome

\* decide_mitigation(trust_result) has been called and enters its retry loop
MitInit ==
    /\ m_pc = "call"
    /\ m_trust \in TrustResults
    /\ m_attempt = 0
    /\ m_reply = <<>>
    /\ m_slept = 0
    /\ m_api = "none"
    /\ m_result = NoOutcome

\* generate_content succeeds: break, then parse the reply and return
MitCallOk ==
    /\ m_pc = "call"
    /\ \E reply \in Replies :
        /\ m_reply' = reply
        /\ m_result' = ParseReply(m_trust, reply)
    /\ m_pc' = "done"
    /\ m_api' = "ok"
    /\ UNCHANGED <<m_trust, m_attempt, m_slept, gen_vars, dsp_vars, mock_vars, trust_vars>>

\* generate_content raises with "429" or "RESOURCE_EXHAUSTED" in the message:
\* sleep 15 * (attempt + 1) seconds, then raise on the last attempt or go round
MitCallRateLimited ==
    /\ m_pc = "call"
    /\ m_slept' = m_slept + 15 * (m_attempt + 1)
    /\ m_api' = "429"
    /\ \E class \in ApiErrorClasses :
        IF m_attempt = max_retries - 1
        THEN /\ m_pc' = "done"
             /\ m_result' = RaisedFromLoop(class)
             /\ UNCHANGED m_attempt
        ELSE /\ m_pc' = "call"
             /\ m_attempt' = m_attempt + 1
             /\ UNCHANGED m_result
    /\ UNCHANGED <<m_trust, m_reply, gen_vars, dsp_vars, mock_vars, trust_vars>>

\* generate_content raises anything else: raise at once
MitCallError ==
    /\ m_pc = "call"
    /\ \E class \in ApiErrorClasses :
        m_result' = RaisedFromLoop(class)
    /\ m_pc' = "done"
    /\ m_api' = "error"
    /\ UNCHANGED <<m_trust, m_attempt, m_reply, m_slept, gen_vars, dsp_vars, mock_vars, trust_vars>>

MitNext ==
    \/ MitCallOk
    \/ MitCallRateLimited
    \/ MitCallError

(***************************************************************************)
(* main.py and evals/run_evals.py: the mock agents of MOCK_MODE.  Each     *)
(* file defines its own mock_score_trust and mock_decide_mitigation.       *)
(***************************************************************************)
\* a key the dict does not have
AbsentStr == "absent"
AbsentNum == -1

\* features.get(key, default)
GetStr(v, default) == IF v = AbsentStr THEN default ELSE v
GetNum(v, default) == IF v = AbsentNum THEN default ELSE v

MockTrust(score, reason) ==
    [kind |-> "float", trust_score |-> score, reason |-> reason,
     prompt_version |-> "trust_scorer_v1"]

MockMitigation(decision, explanation) ==
    [decision |-> decision, explanation |-> explanation,
     prompt_version |-> "mitigation_v1"]

\* main.py, mock_score_trust
main_mock_score_trust(features) ==
    LET anomaly == GetStr(features.anomaly_type, "none")
        severity == GetStr(features.severity, "none")
        peak == GetNum(features.peak_voltage, 0)
        thd == GetNum(features.thd_percent, 0)
        freq_dev == GetNum(features.frequency_deviation_hz, 0)
        rms == GetNum(features.rms_voltage, 0)
    IN  IF anomaly = "point" /\ severity = "high"
        THEN MockTrust(15, "Mock: high severity point anomaly")
        ELSE IF anomaly = "point" /\ severity = "medium"
        THEN MockTrust(35, "Mock: medium severity point anomaly")
        ELSE IF anomaly = "trend"
        THEN MockTrust(50, "Mock: trend anomaly detected")
        ELSE IF thd > 50000 \/ freq_dev > 500 \/ rms > 7200 \/ peak > 7300
        THEN MockTrust(55, "Mock: borderline features detected")
        ELSE MockTrust(95, "Mock: all features normal")

\* score = trust_result.get("trust_score", 0.5)
MockScoreOf(trust_result) ==
    IF trust_result.kind = "missing" THEN 50 ELSE trust_result.trust_score

\* main.py, mock_decide_mitigation, with score >= 0.70 taken strictly
mock_decide_mitigation_strict(trust_result) ==
    LET score == MockScoreOf(trust_result)
    IN  IF score > 70 THEN MockMitigation(ACCEPT, "Mock: trust score above threshold")
        ELSE IF score >= 30 THEN MockMitigation(QUARANTINE, "Mock: suspicious reading")
        ELSE MockMitigation(REJECT, "Mock: forced reject")

\* main.py, mock_decide_mitigation
main_mock_decide_mitigation(trust_result) ==
    LET score == MockScoreOf(trust_result)
    IN  IF score >= 70 THEN MockMitigation(ACCEPT, "Mock: trust score above threshold")
        ELSE IF score >= 30 THEN MockMitigation(QUARANTINE, "Mock: suspicious reading")
        ELSE MockMitigation(REJECT, "Mock: forced reject")

\* evals/run_evals.py, mock_score_trust
evals_mock_score_trust(features) ==
    LET anomaly == GetStr(features.anomaly_type, "none")
        severity == GetStr(features.severity, "none")
        peak == GetNum(features.peak_voltage, 0)
        thd == GetNum(features.thd_percent, 0)
        freq_dev == GetNum(features.frequency_deviation_hz, 0)
        rms == GetNum(features.rms_voltage, 0)
    IN  IF anomaly = "point" /\ severity = "high"
        THEN MockTrust(15, "Mock: high severity point anomaly")
        ELSE IF anomaly = "point" /\ severity = "medium"
        THEN MockTrust(35, "Mock: medium severity point anomaly")
        ELSE IF anomaly = "trend"
        THEN MockTrust(50, "Mock: trend anomaly detected")
        ELSE IF thd > 50000 \/ freq_dev > 500 \/ rms > 7200 \/ peak > 7300
        THEN MockTrust(55, "Mock: borderline features detected")
        ELSE MockTrust(95, "Mock: all features normal")

\* evals/run_evals.py, mock_decide_mitigation
evals_mock_decide_mitigation(trust_result) ==
    LET score == MockScoreOf(trust_result)
    IN  IF score >= 70 THEN MockMitigation(ACCEPT, "Mock: trust score above threshold")
        ELSE IF score >= 30 THEN MockMitigation(QUARANTINE, "Mock: suspicious reading")
        ELSE MockMitigation(REJECT, "Mock: forced reject")

\* feature vectors: every label the simulator and the prompt name, a label
\* neither names, absent keys, and values on both sides of each threshold
FeatureVectors ==
    [anomaly_type : {"none", "point", "trend", "drift", AbsentStr},
     severity : {"none", "low", "medium", "high", AbsentStr},
     thd_percent : {0, 50000, 50001},
     frequency_deviation_hz : {AbsentNum, 500, 501},
     rms_voltage : {7071, 7200, 7201},
     peak_voltage : {7071, 7300, 7301}]

\* trust results given to mock_decide_mitigation directly
MockTrustResults ==
    {[kind |-> "float", trust_score |-> x, reason |-> "", prompt_version |-> "trust_scorer_v1"] :
        x \in {0, 15, 29, 30, 35, 50, 55, 69, 70, 71, 95, 100}}
    \cup {[kind |-> "missing", trust_score |-> 0, reason |-> "",
           prompt_version |-> "trust_scorer_v1"]}

NoFeatures ==
    [anomaly_type |-> AbsentStr, severity |-> AbsentStr, thd_percent |-> AbsentNum,
     frequency_deviation_hz |-> AbsentNum, rms_voltage |-> AbsentNum,
     peak_voltage |-> AbsentNum]

NoTrust == [kind |-> "missing", trust_score |-> 0, reason |-> "", prompt_version |-> ""]

\* the mock-mode step of the pipeline on a feature vector, and a direct call
\* of mock_decide_mitigation on a trust result
MockCalls ==
    {[fn |-> "pipeline", features |-> f, trust_result |-> NoTrust] : f \in FeatureVectors}
    \cup {[fn |-> "mock_decide_mitigation", features |-> NoFeatures, trust_result |-> tr] :
            tr \in MockTrustResults}

MockIdle ==
    /\ mock_in = [fn |-> "none", features |-> NoFeatures, trust_result |-> NoTrust]
    /\ main_out = NoOutcome
    /\ evals_out = NoOutcome

MockInit ==
    /\ mock_in \in MockCalls
    /\ main_out = NoOutcome
    /\ evals_out = NoOutcome

\* main.py, run_pipeline under MOCK_MODE:
\* mitigation_result = mock_decide_mitigation(mock_score_trust(features))
MainMockPipeline ==
    /\ mock_in.fn = "pipeline"
    /\ main_out.status = "none"
    /\ main_out' = Return(main_mock_decide_mitigation(main_mock_score_trust(mock_in.features)))
    /\ UNCHANGED <<mock_in, evals_out, gen_vars, dsp_vars, mit_vars, trust_vars>>

\* evals/run_evals.py, run_evals under MOCK_MODE
EvalsMockPipeline ==
    /\ mock_in.fn = "pipeline"
    /\ evals_out.status = "none"
    /\ evals_out' = Return(evals_mock_decide_mitigation(evals_mock_score_trust(mock_in.features)))
    /\ UNCHANGED <<mock_in, main_out, gen_vars, dsp_vars, mit_vars, trust_vars>>

MainMockDecide ==
    /\ mock_in.fn = "mock_decide_mitigation"
    /\ main_out.status = "none"
    /\ main_out' = Return(main_mock_decide_mitigation(mock_in.trust_result))
    /\ UNCHANGED <<mock_in, evals_out, gen_vars, dsp_vars, mit_vars, trust_vars>>

EvalsMockDecide ==
    /\ mock_in.fn = "mock_decide_mitigation"
    /\ evals_out.status = "none"
    /\ evals_out' = Return(evals_mock_decide_mitigation(mock_in.trust_result))
    /\ UNCHANGED <<mock_in, main_out, gen_vars, dsp_vars, mit_vars, trust_vars>>

MockNext ==
    \/ MainMockPipeline
    \/ EvalsMockPipeline
    \/ MainMockDecide
    \/ EvalsMockDecide

(***************************************************************************)
(* agents/trust_scorer.py                                                  *)
(***************************************************************************)
trust_max_retries == 3

\* JSON objects of a trust scorer reply: with or without a "trust_score"
\* member, whose value is a number, a string (holding a number or not),
\* true, null or an array; scores are in hundredths
TrustObject(trust_score) == [type |-> "object", trust_score |-> trust_score]
TNum(x) == [type |-> "number", numeric |-> TRUE, value |-> x]
TStr(x) == [type |-> "string", numeric |-> TRUE, value |-> x]
TWord == [type |-> "string", numeric |-> FALSE, value |-> 0]
TTrue == [type |-> "true", numeric |-> FALSE, value |-> 100]
TNull == [type |-> "null", numeric |-> FALSE, value |-> 0]
TList == [type |-> "array", numeric |-> FALSE, value |-> 0]
TMissing == [type |-> "missing", numeric |-> FALSE, value |-> 50]

\* float(data.get("trust_score", 0.5))
FloatOf(v) ==
    CASE v.type = "missing" -> Return(50)
      [] v.type = "number" -> Return(v.value)
      [] v.type = "true" -> Return(100)
      [] v.type = "string" -> IF v.numeric THEN Return(v.value) ELSE Raise("ValueError")
      [] v.type \in {"null", "array"} -> Raise("TypeError")

\* except (json.JSONDecodeError, ValueError, TypeError, AttributeError)
TrustCaught(e) ==
    e \in {"JSONDecodeError", "ValueError", "TypeError", "AttributeError"}

TrustParseError ==
    Return([trust_score |-> 50, reason |-> "parse error",
            prompt_version |-> "trust_scorer_v1"])

\* lines 59-81: what score_trust does with the reply of a call that succeeded
ParseTrustReply(reply) ==
    LET loaded == JsonLoads(StripFence(reply))
        data == loaded.value
    IN  IF loaded.status = "raise" THEN TrustParseError
        ELSE IF data.type # "object" THEN TrustParseError     \* AttributeError
        ELSE IF FloatOf(data.trust_score).status = "raise" THEN TrustParseError
        ELSE Return([trust_score |-> FloatOf(data.trust_score).value,
                     reason |-> "from the reply",
                     prompt_version |-> "trust_scorer_v1"])

\* an exception leaving the retry loop meets the outer except clause
TrustRaisedFromLoop(class) ==
    IF TrustCaught(class) THEN TrustParseError ELSE Raise(class)

TrustReplies ==
    {<<JsonLine(TrustObject(v))>> :
        v \in {TNum(95), TNum(15), TNum(50), TNum(150), TStr(80), TWord, TTrue,
               TNull, TList, TMissing}}
    \cup {<<JsonLine(JsonArray)>>, <<>>, <<ProseLine>>,
          <<FenceLine("json"), JsonLine(TrustObject(TNum(95))), FenceLine("")>>,
          <<FenceLine(""), JsonLine(TrustObject(TNum(15)))>>,
          <<FenceLine("json"), JsonLine(TrustObject(TNum(95))), FenceLine(""), ProseLine>>}

TrustIdle ==
    /\ t_pc = "idle" /\ t_attempt = 0 /\ t_reply = <<>>
    /\ t_slept = 0 /\ t_api = "none" /\ t_result = NoOutcome

\* score_trust(features) has been called and enters its retry loop
TrustInit ==
    /\ t_pc = "call"
    /\ t_attempt = 0
    /\ t_reply = <<>>
    /\ t_slept = 0
    /\ t_api = "none"
    /\ t_result = NoOutcome

\* generate_content succeeds: break, then parse the reply and return
TrustCallOk ==
    /\ t_pc = "call"
    /\ \E reply \in TrustReplies :
        /\ t_reply' = reply
        /\ t_result' = ParseTrustReply(reply)
    /\ t_pc' = "done"
    /\ t_api' = "ok"
    /\ UNCHANGED <<t_attempt, t_slept, gen_vars, dsp_vars, mit_vars, mock_vars>>

\* generate_content raises with "429" or "RESOURCE_EXHAUSTED" in the message:
\* sleep 15 * (attempt + 1) seconds, then raise on the last attempt or go round
TrustCallRateLimited ==
    /\ t_pc = "call"
    /\ t_slept' = t_slept + 15 * (t_attempt + 1)
    /\ t_api' = "429"
    /\ \E class \in ApiErrorClasses :
        IF t_attempt = trust_max_retries - 1
        THEN /\ t_pc' = "done"
             /\ t_result' = TrustRaisedFromLoop(class)
             /\ UNCHANGED t_attempt
        ELSE /\ t_pc' = "call"
             /\ t_attempt' = t_attempt + 1
             /\ UNCHANGED t_result
    /\ UNCHANGED <<t_reply, gen_vars, dsp_vars, mit_vars, mock_vars>>

\* generate_content raises anything else: raise at once
TrustCallError ==
    /\ t_pc = "call"
    /\ \E class \in ApiErrorClasses :
        t_result' = TrustRaisedFromLoop(class)
    /\ t_pc' = "done"
    /\ t_api' = "error"
    /\ UNCHANGED <<t_attempt, t_reply, t_slept, gen_vars, dsp_vars, mit_vars, mock_vars>>

TrustNext ==
    \/ TrustCallOk
    \/ TrustCallRateLimited
    \/ TrustCallError

\* the two agents, each called once, in either order
AgentsNext ==
    \/ MitCallOk
    \/ MitCallRateLimited
    \/ MitCallError
    \/ TrustCallOk
    \/ TrustCallRateLimited
    \/ TrustCallError

(***************************************************************************)
(* Specifications: the generator, the feature extractor and the mitigation *)
(* agent, each run on its own.                                             *)
(***************************************************************************)
GenIdle == np_random = 0 /\ np_seed = Unseeded /\ gen_out = NoCall

InitGen == GenInit /\ DspIdle /\ MitIdle /\ MockIdle /\ TrustIdle
InitSeeded == SeededInit /\ DspIdle /\ MitIdle /\ MockIdle /\ TrustIdle
InitDsp == GenIdle /\ DspInit /\ MitIdle /\ MockIdle /\ TrustIdle
InitMit == GenIdle /\ DspIdle /\ MitInit /\ MockIdle /\ TrustIdle
InitAgents == GenIdle /\ DspIdle /\ MitInit /\ MockIdle /\ TrustInit
InitMock == GenIdle /\ DspIdle /\ MitIdle /\ MockInit /\ TrustIdle

SpecGen == InitGen /\ [][GenNext]_vars
SpecSeeded == InitSeeded /\ [][SeededNext]_vars
SpecDsp == InitDsp /\ [][DspNext]_vars
SpecMit == InitMit /\ [][MitNext]_vars
SpecMock == InitMock /\ [][MockNext]_vars
SpecAgents == InitAgents /\ [][AgentsNext]_vars

\* every generate_content call returns or raises, and every sleep ends
SpecAgentsFair == SpecAgents /\ WF_vars(MitNext) /\ WF_vars(TrustNext)

(***************************************************************************)
(* Properties.                                                             *)
(***************************************************************************)
CountType(batch, ty) ==
    Cardinality({i \in 1..Len(batch) : batch[i].anomaly_type = ty})

\* C1: generate_batch(n) returns exactly n readings: round(0.40 n) of type
\* "none", round(0.35 n) of type "point" and the remainder, which is never
\* negative, of type "trend"; the counts after the shuffle sum to n and
\* n = 0 gives the empty batch.
C1_BatchComposition ==
    gen_out.fn = "generate_batch" =>
        LET n == gen_out.arg
            batch == gen_out.ret
            remainder == n - PyRound(40 * n, 100) - PyRound(35 * n, 100)
        IN  /\ Len(batch) = n
            /\ CountType(batch, "none") = PyRound(40 * n, 100)
            /\ CountType(batch, "point") = PyRound(35 * n, 100)
            /\ CountType(batch, "trend") = remainder
            /\ remainder >= 0
            /\ CountType(batch, "none") + CountType(batch, "point")
                + CountType(batch, "trend") = n
            /\ (n = 0 => batch = <<>>)

\* a batch of 10 (0.35 n is the tie 3.5, rounded to 4) that the shuffle has
\* taken out of generation order
C1_Witness ==
    /\ gen_out.fn = "generate_batch"
    /\ gen_out.arg = 10
    /\ CountType(gen_out.ret, "point") = 4
    /\ CountType(gen_out.ret, "trend") = 2
    /\ gen_out.ret[1].anomaly_type = "trend"

\* the readings generate_point_anomaly made in the last call: its own return
\* value, or the point readings of a batch
PointReadings ==
    IF gen_out.fn = "generate_point_anomaly" THEN {gen_out.ret}
    ELSE IF gen_out.fn = "generate_batch"
    THEN {gen_out.ret[i] : i \in {j \in 1..Len(gen_out.ret) :
                                    gen_out.ret[j].anomaly_type = "point"}}
    ELSE {}

\* the sample positions at which a voltage array differs from the base sine
SpikePositions(voltage) == {k \in DOMAIN voltage : voltage[k] # BaseSine[k]}

\* C9: a reading from generate_point_anomaly has anomaly_type "point", and
\* severity "high" exactly when its spike is above 1.4 pu, "medium" when the
\* spike is in [1.3, 1.4]; never "none" or "low".
C9_PointSeverity ==
    /\ gen_out.fn = "generate_point_anomaly" => gen_out.ret.anomaly_type = "point"
    /\ \A r \in PointReadings :
        /\ r.severity \in {"high", "medium"}
        /\ \A k \in SpikePositions(r.voltage) :
            /\ (r.severity = "high") <=> (r.voltage[k] > 140)
            /\ (r.voltage[k] >= 130 /\ r.voltage[k] <= 140) => r.severity = "medium"

\* a spike of exactly 1.4 pu, which is "medium"
C9_Witness ==
    /\ gen_out.fn = "generate_point_anomaly"
    /\ \E k \in SpikePositions(gen_out.ret.voltage) : gen_out.ret.voltage[k] = 140
    /\ gen_out.ret.severity = "medium"

\* C10: the voltage of a reading from generate_point_anomaly differs from the
\* base sine at exactly one sample, which holds a value in [1.3, 1.5] pu; the
\* other 49 samples are those of the base sine, and voltage and frequency
\* both have 50 samples.
C10_OneSpike ==
    \A r \in PointReadings :
        /\ Len(r.voltage) = 50
        /\ Len(r.frequency) = 50
        /\ Cardinality(SpikePositions(r.voltage)) = 1
        /\ Cardinality({k \in 1..50 : r.voltage[k] = BaseSine[k]}) = 49
        /\ \A k \in SpikePositions(r.voltage) :
            r.voltage[k] >= 130 /\ r.voltage[k] <= 150

\* the spike sits on the last sample
C10_Witness ==
    /\ gen_out.fn = "generate_point_anomaly"
    /\ SpikePositions(gen_out.ret.voltage) = {50}

DspDone(fn) == dsp_in.fn = fn /\ dsp_out.status # "none"

\* what a generator returns when it is the first call made after
\* np.random.seed(k)
SeededResult(fn, arg, k) ==
    CASE fn = "generate_normal_signal" -> generate_normal_signal(SeedState(k)).reading
      [] fn = "generate_point_anomaly" -> generate_point_anomaly(SeedState(k)).reading
      [] fn = "generate_trend_anomaly" -> generate_trend_anomaly(SeedState(k)).reading
      [] fn = "generate_batch" -> generate_batch(SeedState(k), arg).readings

\* C11: with the seed fixed, every call of a generator returns the readings
\* that generator returns for that seed, whatever generator calls were made
\* before it since the seed was set: a call's randomness depends on the seed
\* alone and not on the state other calls left behind.
C11_SeededCallsRepeat ==
    [][(np_seed # Unseeded /\ gen_out' # gen_out) =>
            gen_out'.ret = SeededResult(gen_out'.fn, gen_out'.arg, np_seed)]_vars

\* C4: in compute_thd, for every signal of length n >= 1, the clamped
\* fundamental bin is an index of the spectrum, 0 <= fund_bin <= n_fft // 2,
\* and reading the fundamental magnitude does not go out of range.
C4_FundBinInRange ==
    (DspDone("compute_thd") /\ Len(dsp_in.signal) >= 1) =>
        LET n_fft == NFft(Len(dsp_in.signal))
            fund_bin == FundBin(n_fft, dsp_in.fs, 50)
        IN  /\ 0 <= fund_bin
            /\ fund_bin <= n_fft \div 2
            /\ dsp_out # Raise("IndexError")

C6_EmptyIsZero ==
    /\ (DspDone("compute_rms") /\ Len(dsp_in.signal) = 0) => dsp_out = Return(0)
    /\ (DspDone("compute_thd") /\ Len(dsp_in.signal) = 0) => dsp_out = Return(ThdZero)
    /\ (DspDone("compute_frequency_deviation") /\ Len(dsp_in.signal) = 0)
            => dsp_out = Return(0)

C6_Witness ==
    /\ DspDone("compute_thd")
    /\ dsp_in.signal = <<>>
    /\ dsp_in.fs = 50
    /\ dsp_out.status = "return"

\* a reading as the simulator makes it: 50 voltage and 50 frequency samples
IsReading(r) ==
    Len(r.voltage) = SAMPLES_PER_READING /\ Len(r.frequency) = SAMPLES_PER_READING

AllZero(voltage) == \A k \in 1..Len(voltage) : voltage[k] = 0

\* C7: extract_features on a reading whose voltage is all zeros returns
\* rms_voltage = 0.0, thd_percent = 0.0 and peak_voltage = 0.0 and does not
\* raise.
C7_AllZeroReading ==
    (DspDone("extract_features") /\ IsReading(dsp_prev.arg.reading)
        /\ AllZero(dsp_prev.arg.reading.voltage)) =>
        /\ dsp_out.status = "return"
        /\ dsp_out.value.rms_voltage = 0
        /\ dsp_out.value.thd_percent = ThdZero
        /\ dsp_out.value.peak_voltage = 0

C7_Witness ==
    /\ DspDone("extract_features")
    /\ dsp_prev.arg.reading.voltage = ZeroVoltage
    /\ dsp_prev.arg.reading.frequency = NoisyFrequency(0)
    /\ dsp_out.status = "return"
    /\ dsp_out.value.thd_percent = ThdZero

C2_LowTrustRejected ==
    (m_pc = "done" /\ m_result.status = "return"
        /\ m_trust.kind = "float" /\ m_trust.trust_score < 30) =>
        m_result.value.decision = REJECT

\* C3: every result decide_mitigation returns has a decision among "ACCEPT",
\* "QUARANTINE" and "REJECT".
C3_DecisionInRange ==
    (m_pc = "done" /\ m_result.status = "return") =>
        m_result.value.decision \in {ACCEPT, QUARANTINE, REJECT}

\* the decision the mock pipeline is to give for a feature vector whose
\* anomaly_type and severity are among: point/high, point/medium, trend (any
\* severity), none (any severity)
MockTableCovers(f) ==
    \/ f.anomaly_type = "point" /\ f.severity \in {"high", "medium"}
    \/ f.anomaly_type \in {"trend", "none"}

MockTableDecision(f) ==
    IF f.anomaly_type = "point" /\ f.severity = "high" THEN REJECT
    ELSE IF f.anomaly_type = "point" /\ f.severity = "medium" THEN QUARANTINE
    ELSE IF f.anomaly_type = "trend" THEN QUARANTINE
    ELSE IF \/ GetNum(f.thd_percent, 0) > 50000
            \/ GetNum(f.frequency_deviation_hz, 0) > 500
            \/ GetNum(f.rms_voltage, 0) > 7200
            \/ GetNum(f.peak_voltage, 0) > 7300
    THEN QUARANTINE
    ELSE ACCEPT

\* ACCEPT for score >= 0.70, QUARANTINE for 0.30 <= score < 0.70, REJECT below
ThresholdDecision(score) ==
    IF score >= 70 THEN ACCEPT ELSE IF score >= 30 THEN QUARANTINE ELSE REJECT

MockOutcomeIs(out, decision) ==
    out.status = "return" /\ out.value.decision = decision

\* C12: in mock mode mock_decide_mitigation(mock_score_trust(features)) is
\* REJECT for point/high, QUARANTINE for point/medium and for trend, and for
\* anomaly_type none ACCEPT unless thd_percent > 5.0, frequency_deviation_hz
\* > 0.05, rms_voltage > 0.72 or peak_voltage > 0.73, then QUARANTINE;
\* mock_decide_mitigation gives ACCEPT for score >= 0.70, QUARANTINE for
\* 0.30 <= score < 0.70 and REJECT below 0.30; and the copies in main.py and
\* evals/run_evals.py give the same decision for the same input.
C12_MockDecisionTable ==
    /\ \A out \in {main_out, evals_out} :
        out.status # "none" =>
            /\ (mock_in.fn = "pipeline" /\ MockTableCovers(mock_in.features)) =>
                    MockOutcomeIs(out, MockTableDecision(mock_in.features))
            /\ (mock_in.fn = "mock_decide_mitigation"
                    /\ mock_in.trust_result.kind = "float") =>
                    MockOutcomeIs(out, ThresholdDecision(mock_in.trust_result.trust_score))
    /\ (main_out.status # "none" /\ evals_out.status # "none") =>
            /\ main_out.status = evals_out.status
            /\ main_out.value.decision = evals_out.value.decision

\* both copies have run on a reading labelled none whose only suspicious
\* feature is a peak just above 0.73: QUARANTINE in both
C12_Witness ==
    /\ mock_in.fn = "pipeline"
    /\ mock_in.features =
            [anomaly_type |-> "none", severity |-> "none", thd_percent |-> 0,
             frequency_deviation_hz |-> 500, rms_voltage |-> 7200,
             peak_voltage |-> 7301]
    /\ MockOutcomeIs(main_out, QUARANTINE)
    /\ MockOutcomeIs(evals_out, QUARANTINE)

\* the seconds slept before the call numbered attempt + 1: 15 s before the
\* second call, 15 s + 30 s before the third
SleptBeforeCall(attempt) ==
    CASE attempt = 0 -> 0 [] attempt = 1 -> 15 [] attempt = 2 -> 45

\* the retry loop of one invocation, seen in a state: its position, the
\* 0-based attempt, the seconds slept, how the last call ended, the reply
\* parsed, the outcome, and the outcome when the handler catches the error
RetryLoopState(pc, attempt, slept, api, reply, result, parsed, fallback) ==
    /\ attempt \in 0..2
    /\ (IF pc = "done" THEN attempt + 1 ELSE attempt) <= 3
    /\ pc = "call" =>
            /\ slept = SleptBeforeCall(attempt)
            /\ attempt > 0 => api = "429"
            /\ attempt = 0 => api = "none"
            /\ result = NoOutcome
    /\ (pc = "done" /\ api = "429") =>
            /\ attempt = 2
            /\ slept = SleptBeforeCall(2) + 45
            /\ reply = <<>>
            /\ result.status = "raise" \/ result = fallback
    /\ (pc = "done" /\ api = "error") =>
            /\ slept = SleptBeforeCall(attempt)
            /\ reply = <<>>
            /\ result.status = "raise" \/ result = fallback
    /\ (pc = "done" /\ api = "ok") =>
            /\ slept = SleptBeforeCall(attempt)
            /\ result = parsed
    /\ pc = "done" => api \in {"ok", "429", "error"}

\* a step of the retry loop that goes on to a further call
RetryLoopStep(attempt, attempt2, slept, slept2, api2) ==
    attempt2 # attempt =>
        /\ attempt2 = attempt + 1
        /\ api2 = "429"
        /\ slept2 = slept + 15 * attempt2

\* C13: an invocation of score_trust or decide_mitigation calls the model at
\* most 3 times and terminates; a further call follows only a rate-limit
\* error and a wait of 15 s times the number of the attempt that failed (15 s,
\* then 30 s); any other error ends the attempts at once with no wait; the
\* third rate-limit error in a row is re-raised out of the loop after its 45 s
\* wait; a reply is parsed only when the call succeeded.
C13_RetryLoop ==
    /\ [](RetryLoopState(m_pc, m_attempt, m_slept, m_api, m_reply, m_result,
                          ParseReply(m_trust, m_reply), ParseErrorResult)
           /\ RetryLoopState(t_pc, t_attempt, t_slept, t_api, t_reply, t_result,
                             ParseTrustReply(t_reply), TrustParseError))
    /\ [][RetryLoopStep(m_attempt, m_attempt', m_slept, m_slept', m_api')
           /\ RetryLoopStep(t_attempt, t_attempt', t_slept, t_slept', t_api')]_vars
    /\ (m_pc = "call") ~> (m_pc = "done")
    /\ (t_pc = "call") ~> (t_pc = "done")

\* both invocations ended on their third rate-limit error in a row, after
\* 15 + 30 + 45 seconds of waiting
C13_Witness ==
    /\ m_pc = "done" /\ m_api = "429" /\ m_attempt = 2 /\ m_slept = 90
    /\ m_result.status = "raise"
    /\ t_pc = "done" /\ t_api = "429" /\ t_attempt = 2 /\ t_slept = 90
    /\ t_result.status = "raise"

\* the reply is not the expected JSON object: it is not valid JSON, it is
\* JSON but no object, or the member the function reads has the wrong type
\* (a decision that is no string, a trust_score that is no number)
NotExpectedJson(reply, member(_), type) ==
    LET loaded == JsonLoads(StripFence(reply))
    IN  \/ loaded.status = "raise"
        \/ loaded.value.type # "object"
        \/ member(loaded.value).type \notin {type, "missing"}

DecisionMember(data) == data.decision
TrustScoreMember(data) == data.trust_score

\* C14: when the reply of a call that succeeded cannot be parsed into the
\* expected JSON object, score_trust returns trust_score 0.5 with reason
\* "parse error" and decide_mitigation returns QUARANTINE with explanation
\* "parse error", and neither raises; that fallback is returned for such a
\* reply (or a trust_score argument of the wrong type) only: when the calls
\* ended on a rate-limit error or on another API error, the function is left
\* through an exception.
C14_ParseFallback ==
    /\ m_pc = "done" =>
        /\ (m_api = "ok" /\ NotExpectedJson(m_reply, DecisionMember, "string")) =>
                m_result = ParseErrorResult
        /\ m_api \in {"429", "error"} => m_result.status = "raise"
        /\ m_result = ParseErrorResult =>
                /\ m_api = "ok"
                /\ \/ NotExpectedJson(m_reply, DecisionMember, "string")
                   \/ m_trust.kind = "str"
    /\ t_pc = "done" =>
        /\ (t_api = "ok" /\ NotExpectedJson(t_reply, TrustScoreMember, "number")) =>
                t_result = TrustParseError
        /\ t_api \in {"429", "error"} => t_result.status = "raise"
        /\ t_result = TrustParseError =>
                /\ t_api = "ok"
                /\ NotExpectedJson(t_reply, TrustScoreMember, "number")

====
